---- MODULE Spec2Model ----
(***************************************************************************)
(* Model of src/mybill.py: a Streamlit script that loads an uploaded bill  *)
(* workbook with pandas and renders pie charts and monthly trend lines     *)
(* driven by keyed widgets.                                                *)
(*                                                                         *)
(* Representation of values                                                *)
(*   - A text label (category, sub-category, tag) is a positive integer:   *)
(*     its rank in Python's str ordering among the labels used here, so    *)
(*     that integer < is the comparison pandas uses when it sorts keys.    *)
(*     Categories:  1 jiaotong   2 qita       3 yiliao   4 chihewanle      *)
(*                  5 gudingzhichu  6 jiangjin  7 gongzi  8 lvyou          *)
(*                  9 fushimeizhuang  10 shenghuoyongpin                    *)
(*                  11 jingshenxuqiu  12 ziwotisheng  13 canyin            *)
(*     (3, 6 and 7 are not in the trend display list `order`).             *)
(*   - An empty workbook cell is NaN.                                      *)
(*   - The month column is a real string: a sequence of code points.       *)
(*   - Column names: date, amount, flow, cat, sub, tag are the workbook    *)
(*     columns; year, month, amount_abs are the columns load_data adds.    *)
(*   - flow literals: "income", "expense"; any other cell text is kept     *)
(*     as it is ("transfer").  Display modes: "amount", "percent".         *)
(***************************************************************************)
EXTENDS Integers, Sequences, FiniteSets, TLC

VARIABLES uploaded_file, session_state, input, output

vars == <<uploaded_file, session_state, input, output>>

\* ------------------------------------------------------------------ bounds
\* Longest workbook (in rows) a session uploads.
MaxRows == 2
\* Longest workbook the rendering functions are applied to.
MaxRecords == 3

\* ------------------------------------------------------------ basic values
\* pandas' missing value (an empty cell).
NaN == 0
\* Python's None, as st.selectbox returns it over no options.
None == -1

abs(x) == IF x < 0 THEN 0 - x ELSE x

Row(flow, cat, sub, tag, y, m, amount) ==
    [flow |-> flow, cat |-> cat, sub |-> sub, tag |-> tag,
     date |-> <<y, m>>, amount |-> amount]

\* Rows a session's workbook is made of.
SessionRows ==
    { Row("expense", 13, 1, 1, 2023, 12, 0 - 20),
      Row("expense", 1, 1, NaN, 2024, 2, 10),
      Row("expense", 13, NaN, 1, 2024, 2, 5),
      Row("income", 7, NaN, NaN, 2023, 12, 10) }

\* Rows the rendering functions are applied to.
DataRows ==
    { Row("expense", 13, 2, 1, 2024, 10, 10),
      Row("expense", 13, 1, NaN, 2024, 2, 0 - 20),
      Row("expense", 13, NaN, 1, 2023, 12, 5),
      Row("expense", 1, 1, 2, 2024, 10, 5),
      Row("expense", 3, 1, 1, 2024, 1, 10),
      Row("income", 7, NaN, NaN, 2024, 1, 10),
      Row("income", 6, NaN, 1, 2023, 12, 5),
      Row("transfer", 2, NaN, NaN, 2024, 2, 0 - 20) }

\* Workbooks of one to n rows. A workbook without rows is left out: on it
\* the script stops with an IndexError at latest_year = all_years[-1].
SeqsUpTo(S, n) == UNION { [1..k -> S] : k \in 1..n }

\* A session's workbooks: no record twice in one workbook.
SessionFiles ==
    { f \in SeqsUpTo(SessionRows, MaxRows) :
        \A i, j \in 1..Len(f) : i /= j => f[i] /= f[j] }
DataFiles == SeqsUpTo(DataRows, MaxRecords)

\* ------------------------------------------------------------------ strings
Digit(d) == 48 + d

\* A month string without the leading zero ("2024-2"), as formatting the
\* month number by hand would give.
PeriodStr_unpadded(y, m) ==
    << Digit(y \div 1000), Digit((y \div 100) % 10), Digit((y \div 10) % 10),
       Digit(y % 10), 45 >>
    \o (IF m >= 10 THEN <<Digit(m \div 10), Digit(m % 10)>> ELSE <<Digit(m)>>)

\* str(Period('YYYY-MM', 'M')): four year digits, '-', two month digits.
PeriodStr(y, m) ==
    << Digit(y \div 1000), Digit((y \div 100) % 10), Digit((y \div 10) % 10),
       Digit(y % 10), 45, Digit(m \div 10), Digit(m % 10) >>

\* Python's str <: by code point, a proper prefix first.
RECURSIVE StrLess(_, _)
StrLess(a, b) ==
    IF b = <<>> THEN FALSE
    ELSE IF a = <<>> THEN TRUE
    ELSE IF Head(a) /= Head(b) THEN Head(a) < Head(b)
    ELSE StrLess(Tail(a), Tail(b))

\* ------------------------------------------------------------------- pandas
\* The comparison of two values of a column.
KeyLess(col, a, b) == IF col = "month" THEN StrLess(a, b) ELSE a < b

IsNaN(col, v) == col \notin {"month", "flow"} /\ v = NaN

\* df[col] as a sequence.
Column(data, col) == [i \in 1..Len(data) |-> data[i][col]]

\* data[data[col] == v]: the matching rows in their order. NaN == NaN is False.
RowsWhere(data, col, v) ==
    LET Match(r) == r[col] = v /\ ~IsNaN(col, v) IN SelectSeq(data, Match)

\* data[data[col].isin(values)]: isin matches a NaN cell when NaN is listed.
RowsIsin(data, col, values) ==
    LET Match(r) == r[col] \in values IN SelectSeq(data, Match)

RECURSIVE unique(_)
\* Series.unique(): the distinct values in order of first appearance, NaN kept.
unique(s) ==
    IF s = <<>> THEN <<>>
    ELSE LET u == unique(SubSeq(s, 1, Len(s) - 1))
             x == s[Len(s)]
         IN IF \E i \in 1..Len(u) : u[i] = x THEN u ELSE Append(u, x)

RECURSIVE SumAbs(_)
\* data["amount_abs"].sum()
SumAbs(data) ==
    IF data = <<>> THEN 0 ELSE data[1].amount_abs + SumAbs(Tail(data))

RECURSIVE sorted(_, _)
\* sorted(keys) under the column's comparison.
sorted(col, keys) ==
    IF keys = {} THEN <<>>
    ELSE LET lo == CHOOSE k \in keys : \A j \in keys : j = k \/ KeyLess(col, k, j)
         IN <<lo>> \o sorted(col, keys \ {lo})

\* The group keys of data.groupby(col): NaN keys are dropped (dropna=True).
GroupKeys(data, col) ==
    { data[i][col] : i \in 1..Len(data) } \ (IF col = "month" THEN {} ELSE {NaN})

\* The order of the groups under groupby(col, sort=False): first appearance.
GroupOrder_unsorted(data, col) ==
    SelectSeq(unique(Column(data, col)), LAMBDA k : ~IsNaN(col, k))

\* The order of the groups of data.groupby(col): ascending (sort=True).
GroupOrder(data, col) == sorted(col, GroupKeys(data, col))

\* data.groupby(col)["amount_abs"].sum().reset_index()
GroupBySum(data, col) ==
    LET ks == GroupOrder(data, col)
    IN [i \in 1..Len(ks) |->
          [key |-> ks[i], amount_abs |-> SumAbs(RowsWhere(data, col, ks[i]))]]

\* ---------------------------------------------------------------- load_data
load_data(file) ==
    [i \in 1..Len(file) |->
       [flow |-> file[i].flow, cat |-> file[i].cat, sub |-> file[i].sub,
        tag |-> file[i].tag, date |-> file[i].date, amount |-> file[i].amount,
        year |-> file[i].date[1],
        month |-> PeriodStr(file[i].date[1], file[i].date[2]),
        amount_abs |-> abs(file[i].amount)]]

income_df(df) == RowsWhere(df, "flow", "income")
expense_df(df) == RowsWhere(df, "flow", "expense")

all_years(df) == sorted("year", { df[i].year : i \in 1..Len(df) })
latest_year(df) == all_years(df)[Len(all_years(df))]

\* --------------------------------------------------------- create_pie_chart
create_pie_chart(data, names_col, mode, title) ==
    [d |-> GroupBySum(data, names_col),
     names |-> names_col,
     textinfo |-> IF mode = "percent" THEN "label+percent" ELSE "label+value",
     title |-> title]

\* ---------------------------------------------------------------- widgets
\* A keyed widget keeps its value over reruns while the element built from
\* its arguments (label, options, default) is the same; an element that
\* differs is a new widget and starts from its default.
\* session_state maps a widget key to [id, value] of the widget last drawn.

\* st.selectbox(label, options, index=index, key=key): index counts from 0.
selectbox(ws, key, options, index) ==
    LET id == <<options, index>>
    IN IF key \in DOMAIN ws /\ ws[key].id = id
       THEN ws[key]
       ELSE [id |-> id,
             value |-> IF options = <<>> THEN None ELSE options[index + 1]]

\* list(array): the array's values. Over a float64 array every element is a
\* new float object; over an object array it is the object the array holds.
list(array) == array.values

\* st.multiselect raises StreamlitAPIException ("default value ... is not
\* part of the options") when a default is not found among the options. A
\* NaN is found only as the very same object, so a NaN default taken with
\* list() from a float64 array is not found.
multiselect_raises(options, default) ==
    options.dtype = "float64" /\ \E i \in 1..Len(default) : default[i] = NaN

\* st.multiselect(label, options, default=default, key=key), when it does
\* not raise. The value is kept as the set of chosen options: the script
\* reads only its emptiness and its members.
multiselect(ws, key, options, default) ==
    LET id == <<options.values, default>>
    IN IF key \in DOMAIN ws /\ ws[key].id = id
       THEN ws[key]
       ELSE [id |-> id, value |-> { default[i] : i \in 1..Len(default) }]

\* Radios that all carry the first radio's key.
radio_shared_key(ws, key, options) ==
    IF "income_mode" \in DOMAIN ws /\ ws["income_mode"].id = <<options, 0>>
    THEN ws["income_mode"]
    ELSE [id |-> <<options, 0>>, value |-> options[1]]

\* st.radio(label, options, horizontal=True, key=key): first option by default.
radio(ws, key, options) ==
    LET id == <<options, 0>>
    IN IF key \in DOMAIN ws /\ ws[key].id = id
       THEN ws[key]
       ELSE [id |-> id, value |-> options[1]]

Modes == <<"amount", "percent">>

WidgetKeys ==
    {"income_year", "income_mode", "expense_year", "expense_mode",
     "detail_main_cat", "detail_sub_cat", "detail_mode", "tag_year", "tag_mode"}

\* expense_df["cat"].unique(): the options of the category selectbox.
main_cat_opts(df) == unique(Column(expense_df(df), "cat"))

\* The dtype pandas gives a text column of the workbook: float64 when every
\* cell of the column is empty, object otherwise.
dtype(df, col) ==
    IF \A i \in 1..Len(df) : df[i][col] = NaN THEN "float64" ELSE "object"

\* expense_df[expense_df["cat"] == main_cat]["sub"].unique(): an array.
sub_opts(df, main_cat) ==
    [dtype |-> dtype(df, "sub"),
     values |-> unique(Column(RowsWhere(expense_df(df), "cat", main_cat), "sub"))]

\* The widgets drawn above the sub-category multiselect (line 156).
Before156 ==
    {"income_year", "income_mode", "expense_year", "expense_mode",
     "detail_main_cat"}

\* One run of the script below the upload guard, over the widget state ws
\* left by the previous run (with the user's change applied): the state of
\* every widget afterwards. When the multiselect raises, the run ends at
\* line 156: the widgets above it are drawn, and the stored state of the
\* others stays as it was (a run that ends early drops no widget state).
Script(file, ws) ==
    LET df == load_data(file)
        years == all_years(df)
        income_year == selectbox(ws, "income_year", years, Len(years) - 1)
        income_mode == radio(ws, "income_mode", Modes)
        expense_year == selectbox(ws, "expense_year", years, Len(years) - 1)
        expense_mode == radio(ws, "expense_mode", Modes)
        main_cat == selectbox(ws, "detail_main_cat", main_cat_opts(df), 0)
        opts == sub_opts(df, main_cat.value)
        raised == multiselect_raises(opts, list(opts))
        sub_sel == multiselect(ws, "detail_sub_cat", opts, list(opts))
        drawn == IF raised THEN Before156 ELSE WidgetKeys
        detail_mode == radio(ws, "detail_mode", Modes)
        tag_year == selectbox(ws, "tag_year", years, Len(years) - 1)
        tag_mode == radio(ws, "tag_mode", Modes)
    IN [k \in drawn \cup DOMAIN ws |->
          CASE k \notin drawn -> ws[k]
            [] k = "income_year" -> income_year
            [] k = "income_mode" -> income_mode
            [] k = "expense_year" -> expense_year
            [] k = "expense_mode" -> expense_mode
            [] k = "detail_main_cat" -> main_cat
            [] k = "detail_sub_cat" -> sub_sel
            [] k = "detail_mode" -> detail_mode
            [] k = "tag_year" -> tag_year
            [] k = "tag_mode" -> tag_mode]

\* ------------------------------------------------------- the page, by state
\* st.file_uploader's value: None, or the uploaded workbook (its rows).
NoFile == [present |-> FALSE, rows |-> <<>>]
File(rows) == [present |-> TRUE, rows |-> rows]

Uploaded == uploaded_file.present

df == load_data(uploaded_file.rows)
Value(key) == session_state[key].value

\* The last run over rows ended at line 156, given the widget state it left.
Stopped(rows, ws) ==
    LET opts == sub_opts(load_data(rows), ws["detail_main_cat"].value)
    IN multiselect_raises(opts, list(opts))

\* The widgets on the page after the last run.
Drawn ==
    IF ~Uploaded THEN {}
    ELSE IF Stopped(uploaded_file.rows, session_state) THEN Before156
    ELSE WidgetKeys

\* The rows of the detail chart.
d_detail(edf, main_cat, sub_sel) ==
    RowsIsin(RowsWhere(edf, "cat", main_cat), "sub", sub_sel)

\* The detail column: a chart when sub_sel is truthy, else nothing is drawn.
DetailView(edf, main_cat, sub_sel, mode) ==
    IF sub_sel /= {}
    THEN [kind |-> "chart",
          fig |-> create_pie_chart(d_detail(edf, main_cat, sub_sel), "sub", mode,
                                   <<"detail", main_cat>>)]
    ELSE [kind |-> "nothing"]

\* The charts one run of the script draws, given the widget values: all
\* four, or the first two when the run ends at line 156.
Charts(rows, ws) ==
    LET data == load_data(rows)
        income == income_df(data)
        expense == expense_df(data)
        stopped == Stopped(rows, ws)
    IN [stopped |-> stopped,
        fig_income |->
          create_pie_chart(RowsWhere(income, "year", ws["income_year"].value),
                           "cat", ws["income_mode"].value,
                           <<"income", ws["income_year"].value>>),
        fig_expense |->
          create_pie_chart(RowsWhere(expense, "year", ws["expense_year"].value),
                           "cat", ws["expense_mode"].value,
                           <<"expense", ws["expense_year"].value>>),
        detail |->
          IF stopped THEN [kind |-> "nothing"]
          ELSE DetailView(expense, ws["detail_main_cat"].value,
                          ws["detail_sub_cat"].value, ws["detail_mode"].value),
        fig_tag |->
          IF stopped THEN [kind |-> "nothing"]
          ELSE create_pie_chart(RowsWhere(expense, "year", ws["tag_year"].value),
                                "tag", ws["tag_mode"].value,
                                <<"tag", ws["tag_year"].value>>)]

\* ------------------------------------------------------------ trend section
order == <<4, 11, 10, 9, 12, 8, 13, 5, 1, 2>>

d_trend(edf, cat) == GroupBySum(RowsWhere(edf, "cat", cat), "month")

\* The body of the inner loop for one category: st.info and continue when
\* d_trend is empty, a line chart otherwise.
TrendCell(edf, cat) ==
    LET d == d_trend(edf, cat)
    IN IF d = <<>> THEN [cat |-> cat, kind |-> "info"]
       ELSE [cat |-> cat, kind |-> "chart", d |-> d]

RECURSIVE TrendInner_break(_, _, _)
\* The inner loop with break in place of continue.
TrendInner_break(edf, pair, j) ==
    IF j > Len(pair) \/ j > 2 THEN <<>>
    ELSE IF TrendCell(edf, pair[j]).kind = "info" THEN <<TrendCell(edf, pair[j])>>
    ELSE <<TrendCell(edf, pair[j])>> \o TrendInner_break(edf, pair, j + 1)

RECURSIVE TrendInner(_, _, _)
\* for col, cat in zip([c1, c2], order[i:i+2]): the cells drawn from pair[j] on.
TrendInner(edf, pair, j) ==
    IF j > Len(pair) \/ j > 2 THEN <<>>
    ELSE <<TrendCell(edf, pair[j])>> \o TrendInner(edf, pair, j + 1)

RECURSIVE TrendLoop(_, _)
\* for i in range(0, len(order), 2): everything drawn from offset i on.
TrendLoop(edf, i) ==
    IF i >= Len(order) THEN <<>>
    ELSE LET hi == IF i + 2 <= Len(order) THEN i + 2 ELSE Len(order)
         IN TrendInner(edf, SubSeq(order, i + 1, hi), 1) \o TrendLoop(edf, i + 2)

TrendSection(edf) == TrendLoop(edf, 0)

\* ------------------------------------------------------------------ session
NoWidgets == [k \in {} |-> None]

Idle == [view |-> "none"]

Init ==
    /\ uploaded_file = NoFile
    /\ session_state = NoWidgets
    /\ input = <<>>
    /\ output = Idle

\* The user's change of one widget, then the rerun.
Changed(key, v) ==
    /\ key \in Drawn
    /\ v /= Value(key)
    /\ session_state' =
          Script(uploaded_file.rows, [session_state EXCEPT ![key].value = v])
    /\ UNCHANGED <<uploaded_file, input, output>>

Years == all_years(df)
InSeq(x, s) == \E i \in 1..Len(s) : s[i] = x
SeqSet(s) == { s[i] : i \in 1..Len(s) }

\* A new workbook in the uploader: the script runs over the kept widget state.
Upload(file) ==
    /\ File(file) /= uploaded_file
    /\ uploaded_file' = File(file)
    /\ session_state' = Script(file, session_state)
    /\ UNCHANGED <<input, output>>

\* The file removed from the uploader: the script ends at st.stop() with no
\* widget drawn. A run that ends early drops no widget state, so the stored
\* values are still there for the next upload.
RemoveFile ==
    /\ Uploaded
    /\ uploaded_file' = NoFile
    /\ UNCHANGED <<session_state, input, output>>

SelectIncomeYear(y) == Uploaded /\ InSeq(y, Years) /\ Changed("income_year", y)
SelectExpenseYear(y) == Uploaded /\ InSeq(y, Years) /\ Changed("expense_year", y)
SelectTagYear(y) == Uploaded /\ InSeq(y, Years) /\ Changed("tag_year", y)
SelectIncomeMode(m) == Changed("income_mode", m)
SelectExpenseMode(m) == Changed("expense_mode", m)
SelectDetailMode(m) == Changed("detail_mode", m)
SelectTagMode(m) == Changed("tag_mode", m)
SelectMainCat(c) ==
    Uploaded /\ InSeq(c, main_cat_opts(df)) /\ Changed("detail_main_cat", c)
SelectSubCats(sel) ==
    /\ "detail_sub_cat" \in Drawn
    /\ \A s \in sel : InSeq(s, sub_opts(df, Value("detail_main_cat")).values)
    /\ Changed("detail_sub_cat", sel)

YearDomain == {2023, 2024}
CatDomain == {1, 2, 3, 7, 13}
ModeSet == {"amount", "percent"}

Next ==
    \/ \E file \in SessionFiles : Upload(file)
    \/ RemoveFile
    \/ \E y \in YearDomain : SelectIncomeYear(y)
    \/ \E y \in YearDomain : SelectExpenseYear(y)
    \/ \E y \in YearDomain : SelectTagYear(y)
    \/ \E m \in ModeSet : SelectIncomeMode(m)
    \/ \E m \in ModeSet : SelectExpenseMode(m)
    \/ \E m \in ModeSet : SelectDetailMode(m)
    \/ \E m \in ModeSet : SelectTagMode(m)
    \/ \E c \in CatDomain : SelectMainCat(c)
    \/ \E sel \in SUBSET {NaN, 1, 2} : SelectSubCats(sel)

Spec == Init /\ [][Next]_vars

\* --------------------------------------------- the rendering code on its own
\* One run of the script over a drawn workbook, one part of the page at a
\* time: input is the workbook, output what that part computed and drew.
InitData ==
    /\ uploaded_file = NoFile
    /\ session_state = NoWidgets
    /\ input \in DataFiles
    /\ output = Idle

Rendered(out) ==
    /\ output = Idle
    /\ output' = out
    /\ UNCHANGED <<uploaded_file, session_state, input>>

\* Lines 49-52.
Partition ==
    LET d == load_data(input)
    IN Rendered([view |-> "partition", df |-> d,
                 income_df |-> income_df(d), expense_df |-> expense_df(d)])

Pie(view, data, names_col, mode) ==
    Rendered([view |-> view, rows |-> data, col |-> names_col,
              fig |-> create_pie_chart(data, names_col, mode, <<view>>)])

\* The run gets past the multiselect of line 156 (whatever category is
\* chosen: the column's dtype decides).
Passes156(d) ==
    \A c \in SeqSet(main_cat_opts(d)) :
       ~multiselect_raises(sub_opts(d, c), list(sub_opts(d, c)))

\* Lines 107-112.
RenderIncome(year, mode) ==
    LET d == load_data(input)
    IN /\ output = Idle
       /\ InSeq(year, all_years(d))
       /\ Pie("income", RowsWhere(income_df(d), "year", year), "cat", mode)

\* Lines 130-135.
RenderExpense(year, mode) ==
    LET d == load_data(input)
    IN /\ output = Idle
       /\ InSeq(year, all_years(d))
       /\ Pie("expense", RowsWhere(expense_df(d), "year", year), "cat", mode)

\* Lines 200-205.
RenderTag(year, mode) ==
    LET d == load_data(input)
    IN /\ output = Idle
       /\ Passes156(d)
       /\ InSeq(year, all_years(d))
       /\ Pie("tag", RowsWhere(expense_df(d), "year", year), "tag", mode)

\* Lines 170-182, for a category and a selection the two widgets can return.
RenderDetail(main_cat, sub_sel, mode) ==
    LET d == load_data(input)
    IN /\ output = Idle
       /\ \/ InSeq(main_cat, main_cat_opts(d))
          \/ main_cat_opts(d) = <<>> /\ main_cat = None
       /\ ~multiselect_raises(sub_opts(d, main_cat), list(sub_opts(d, main_cat)))
       /\ \A s \in sub_sel : InSeq(s, sub_opts(d, main_cat).values)
       /\ Rendered([view |-> "detail", main_cat |-> main_cat, sub_sel |-> sub_sel,
                    rows |-> d_detail(expense_df(d), main_cat, sub_sel),
                    col |-> "sub",
                    result |-> DetailView(expense_df(d), main_cat, sub_sel, mode)])

\* Lines 220-256.
RenderTrends ==
    LET d == load_data(input)
    IN /\ output = Idle
       /\ Passes156(d)
       /\ Rendered([view |-> "trends", cells |-> TrendSection(expense_df(d))])

NextData ==
    \/ Partition
    \/ \E y \in YearDomain, m \in ModeSet : RenderIncome(y, m)
    \/ \E y \in YearDomain, m \in ModeSet : RenderExpense(y, m)
    \/ \E y \in YearDomain, m \in ModeSet : RenderTag(y, m)
    \/ \E c \in CatDomain \cup {None}, sel \in SUBSET {NaN, 1, 2}, m \in ModeSet :
          RenderDetail(c, sel, m)
    \/ RenderTrends

SpecData == InitData /\ [][NextData]_vars

\* =================================================================== claims

YearKeys == {"income_year", "expense_year", "tag_year"}
ModeKeys == {"income_mode", "expense_mode", "detail_mode", "tag_mode"}

\* The expense records of the loaded workbook, and what they hold.
ExpenseRecords == { r \in SeqSet(df) : r.flow = "expense" }
ExpenseCats == { r.cat : r \in ExpenseRecords }
SubCatsUnder(cat) == { r.sub : r \in { x \in ExpenseRecords : x.cat = cat } }
YearsPresent == { r.year : r \in SeqSet(df) }
LatestYear == CHOOSE y \in YearsPresent : \A z \in YearsPresent : z <= y

\* A step of the session in which the user changes a widget (the workbook
\* stays), and one in which a new workbook replaces the loaded one.
WidgetStep == Uploaded /\ Uploaded' /\ uploaded_file' = uploaded_file
ReplaceStep == Uploaded /\ Uploaded' /\ uploaded_file' /= uploaded_file

\* The run that ends the step draws the whole page (it does not end at the
\* sub-category multiselect).
PageDrawn == ~Stopped(uploaded_file.rows, session_state)

\* C1: whenever the chosen detail category changes from A to B, the
\* sub-category selection after the change is exactly the set of all
\* sub-categories occurring in expense records of B.
C1_CategoryChangeResetsSubCats ==
    [][ (WidgetStep /\ PageDrawn'
           /\ Value("detail_main_cat")' /= Value("detail_main_cat"))
        => Value("detail_sub_cat")' = SubCatsUnder(Value("detail_main_cat"))' ]_vars

\* C2: replacing the workbook by a new upload re-defaults every selection:
\* the three years are the new latest year, the category is the first
\* category of the new expense subset (none when there is no expense record)
\* and the sub-category selection is everything under that category.
C2_UploadRedefaults ==
    [][ (ReplaceStep /\ PageDrawn') =>
          /\ \A k \in YearKeys : Value(k)' = LatestYear'
          /\ Value("detail_main_cat")' =
                (IF main_cat_opts(df) = <<>> THEN None ELSE main_cat_opts(df)[1])'
          /\ Value("detail_sub_cat")' = SubCatsUnder(Value("detail_main_cat"))' ]_vars

\* C3: in every state with a workbook loaded each chart's chosen year is a
\* year of the workbook, the chosen category is a category of the expense
\* subset, the chosen sub-categories occur under it and each mode is one of
\* the two modes (every one of these widgets being on the page).
C3_SelectionsValid ==
    Uploaded =>
      /\ \A k \in YearKeys : k \in Drawn /\ Value(k) \in YearsPresent
      /\ Value("detail_main_cat") \in ExpenseCats
      /\ "detail_sub_cat" \in Drawn
      /\ Value("detail_sub_cat") \subseteq SubCatsUnder(Value("detail_main_cat"))
      /\ \A k \in ModeKeys : k \in Drawn /\ Value(k) \in {"amount", "percent"}

\* The (key, sum) data of each chart of the page.
ChartData(rows, ws) ==
    LET page == Charts(rows, ws)
    IN IF page.stopped THEN << page.fig_income.d, page.fig_expense.d >>
       ELSE << page.fig_income.d, page.fig_expense.d,
               IF page.detail.kind = "chart" THEN page.detail.fig.d ELSE <<>>,
               page.fig_tag.d >>

\* C10: a user's change of the year or of the display mode of one chart
\* changes no other widget's value, and a step that changes display modes
\* only changes no chart's (key, sum) data.
C10_ChartsIndependent ==
    [][ WidgetStep =>
          /\ DOMAIN session_state' = DOMAIN session_state
          /\ \A k \in (YearKeys \cup ModeKeys) \cap DOMAIN session_state :
                Value(k)' /= Value(k)
                  => \A j \in DOMAIN session_state \ {k} : Value(j)' = Value(j)
          /\ (\A j \in DOMAIN session_state \ ModeKeys : Value(j)' = Value(j))
                => ChartData(uploaded_file'.rows, session_state')
                     = ChartData(uploaded_file.rows, session_state) ]_vars

\* C10 witness: one chart's year and another chart's mode have been changed
\* while the remaining year and mode widgets still hold their defaults.
C10_Witness ==
    /\ Uploaded
    /\ PageDrawn
    /\ Value("income_year") /= LatestYear
    /\ Value("expense_year") = LatestYear
    /\ Value("tag_year") = LatestYear
    /\ Value("tag_mode") = "percent"
    /\ Value("income_mode") = "amount"
    /\ Value("detail_sub_cat") /= SubCatsUnder(Value("detail_main_cat"))

\* ------------------------------------------- claims on the rendering code
RECURSIVE Total(_)
Total(s) == IF s = <<>> THEN 0 ELSE s[1] + Total(Tail(s))

\* The records of the drawn workbook, with the columns load_data adds.
Loaded == load_data(input)

\* A pie chart has been drawn: its rows, its grouping column, its data.
PieDrawn ==
    \/ output.view \in {"income", "expense", "tag"}
    \/ output.view = "detail" /\ output.result.kind = "chart"
PieD == IF output.view = "detail" THEN output.result.fig.d ELSE output.fig.d
PieKeys == [i \in 1..Len(PieD) |-> PieD[i].key]
PieKeyCells == [i \in 1..Len(output.rows) |-> output.rows[i][output.col]]
FirstSeen(k) == CHOOSE i \in 1..Len(PieKeyCells) :
                  /\ PieKeyCells[i] = k
                  /\ \A j \in 1..(i - 1) : PieKeyCells[j] /= k

\* C4: the income and expense subsets partition the loaded records: every
\* record is in exactly one of them, each subset keeps the input's order,
\* and the two lengths add up to the length of the input.
C4_TruePartition ==
    output.view = "partition" =>
      /\ Len(output.income_df) + Len(output.expense_df) = Len(output.df)
      /\ \A i \in 1..Len(output.df) :
            (output.df[i] \in SeqSet(output.income_df))
              /= (output.df[i] \in SeqSet(output.expense_df))
      /\ output.income_df =
            SelectSeq(output.df, LAMBDA r : r \in SeqSet(output.income_df))
      /\ output.expense_df =
            SelectSeq(output.df, LAMBDA r : r \in SeqSet(output.expense_df))

\* C5: for every pie chart drawn over a non-empty record sequence, the group
\* sums add up to the sum of abs(amount) over all its records, and no group
\* sum is negative.
C5_Conservation ==
    (PieDrawn /\ output.rows /= <<>>) =>
      /\ Total([i \in 1..Len(PieD) |-> PieD[i].amount_abs])
           = Total([i \in 1..Len(output.rows) |-> abs(output.rows[i].amount)])
      /\ \A i \in 1..Len(PieD) : PieD[i].amount_abs >= 0

\* C6 as stated: a pie chart's data lists each distinct key once, in the
\* order of the key's first appearance in the chart's records.
C6_FirstAppearanceOrder ==
    PieDrawn =>
      /\ SeqSet(PieKeys) = SeqSet(PieKeyCells) \ {NaN}
      /\ \A i, j \in 1..Len(PieKeys) :
            i < j => FirstSeen(PieKeys[i]) < FirstSeen(PieKeys[j])

\* C6 amended: a pie chart's data lists each distinct key that is not an
\* empty cell once, in ascending order of the key.
C6_AscendingKeyOrder ==
    PieDrawn =>
      /\ SeqSet(PieKeys) = SeqSet(PieKeyCells) \ {NaN}
      /\ \A i, j \in 1..Len(PieKeys) : i < j => PieKeys[i] < PieKeys[j]

\* C6 witness: a chart with two groups whose keys first appear in the
\* records in the opposite of ascending order.
C6_Witness ==
    /\ PieDrawn
    /\ Len(PieKeys) >= 2
    /\ FirstSeen(PieKeys[2]) < FirstSeen(PieKeys[1])

\* Calendar order of two dates, by month.
Earlier(a, b) == a[1] < b[1] \/ (a[1] = b[1] /\ a[2] < b[2])

\* The loaded expense records of a category.
ExpenseOf(cat) ==
    SelectSeq(Loaded, LAMBDA r : r.flow = "expense" /\ r.cat = cat)

\* C7: every trend chart holds one entry per month in which its category
\* has expense records, the entry's value is the sum of abs(amount) of the
\* category's records of that month, and the entries are strictly ascending
\* by the month string, which is the calendar order of the months.
C7_TrendByMonth ==
    output.view = "trends" =>
      \A n \in 1..Len(output.cells) :
        output.cells[n].kind = "chart" =>
          LET rows == ExpenseOf(output.cells[n].cat)
              d == output.cells[n].d
          IN /\ { d[i].key : i \in 1..Len(d) } = { r.month : r \in SeqSet(rows) }
             /\ \A i \in 1..Len(d) :
                  d[i].amount_abs =
                    Total([k \in 1..Len(rows) |->
                             IF rows[k].month = d[i].key
                             THEN abs(rows[k].amount) ELSE 0])
             /\ \A i, j \in 1..Len(d) :
                  i < j =>
                    /\ StrLess(d[i].key, d[j].key)
                    /\ \A r1, r2 \in SeqSet(rows) :
                         (r1.month = d[i].key /\ r2.month = d[j].key)
                           => Earlier(r1.date, r2.date)

\* C7 witness: a trend chart with two months whose category's records come
\* in the workbook in another order than the calendar's.
C7_Witness ==
    /\ output.view = "trends"
    /\ \E n \in 1..Len(output.cells) :
         /\ output.cells[n].kind = "chart"
         /\ Len(output.cells[n].d) >= 2
         /\ ExpenseOf(output.cells[n].cat)[1].month /= output.cells[n].d[1].key

\* C8: the detail view draws nothing (and raises nothing) for an empty
\* selection; for a non-empty one it draws a chart whose groups are exactly
\* the selected sub-categories occurring in expense records of the chosen
\* category, each summed over those records only.
C8_DetailView ==
    output.view = "detail" =>
      LET rows == ExpenseOf(output.main_cat)
          res == output.result
      IN /\ output.sub_sel = {} => res.kind = "nothing"
         /\ output.sub_sel /= {} =>
              /\ res.kind = "chart"
              /\ { res.fig.d[i].key : i \in 1..Len(res.fig.d) }
                   = { s \in output.sub_sel : \E r \in SeqSet(rows) : r.sub = s }
              /\ \A i \in 1..Len(res.fig.d) :
                   res.fig.d[i].amount_abs =
                     Total([k \in 1..Len(rows) |->
                              IF rows[k].sub = res.fig.d[i].key
                              THEN abs(rows[k].amount) ELSE 0])

\* C9: the trend section draws one cell per category of the display list,
\* in list order: a chart when the category has expense records, the
\* no-data note otherwise; categories outside the list draw nothing.
C9_TrendSection ==
    output.view = "trends" =>
      /\ Len(output.cells) = Len(order)
      /\ \A n \in 1..Len(output.cells) :
           /\ output.cells[n].cat = order[n]
           /\ output.cells[n].kind =
                (IF ExpenseOf(order[n]) /= <<>> THEN "chart" ELSE "info")

\* C9 witness: the workbook has an expense record of a category outside the
\* list, and a no-data cell is followed by a chart.
C9_Witness ==
    /\ output.view = "trends"
    /\ \E r \in SeqSet(Loaded) : r.flow = "expense" /\ r.cat \notin SeqSet(order)
    /\ \E i, j \in 1..Len(output.cells) :
         i < j /\ output.cells[i].kind = "info" /\ output.cells[j].kind = "chart"

====
